---- MODULE Spec2Model ----
(***************************************************************************)
(* Model of packages/cli/src/ui/components/BackgroundShellDisplay.tsx.     *)
(*                                                                         *)
(* The component is a React function component.  The surrounding           *)
(* application owns the session registry, the active pid, the picker flag, *)
(* the viewport geometry and the focus flag; the component receives them   *)
(* as props at each render, keeps one piece of local state (the selection  *)
(* index), registers a key handler that closes over the props and state of *)
(* the render that created it, and runs its effects after each render      *)
(* whose dependencies changed.                                             *)
(*                                                                         *)
(* Variables of the application carry the names of the UI actions that set *)
(* them; variables of the component carry the names of its props / state.  *)
(* Under Spec every event is followed by the re-renders it causes before   *)
(* the next event is accepted (spec section 5).  SpecForward is the same   *)
(* panel with the pty traffic recorded, SpecTabs applies renderTabs to its *)
(* inputs, and SpecAsync lets a key event reach the handler of the last    *)
(* render before the re-render asked for by the previous key has happened. *)
(***************************************************************************)
EXTENDS Integers, Sequences, FiniteSets, TLC

VARIABLES
    backgroundShells,           \* application: registry, pids in insertion order
    activeBackgroundShellPid,   \* application: active pid (0 = none)
    isBackgroundShellListOpen,  \* application: picker flag
    terminalWidth,              \* application: width given to the panel
    terminalHeight,             \* application: height given to the panel
    focused,                    \* application: panel owns the keyboard
    mounted,                    \* the panel is shown (component mounted)
    shells,                     \* prop of the last render (keys of the Map)
    activePid,                  \* prop of the last render
    width,                      \* prop of the last render
    height,                     \* prop of the last render
    isFocused,                  \* prop of the last render
    isListOpenProp,             \* prop of the last render
    listSelectionIndex,         \* useState value seen by the last render
    selectionState,             \* useState value after all queued updates
    shellsStale,                \* the registry Map was replaced since the last render
    calls,                      \* external calls issued by the last event
    ev,                         \* the last event
    ptyWritten,                 \* history: bytes written to each session's pty
    keysForwarded,              \* history: forwardable key events per active session
    layout                      \* tab layout: inputs of renderTabs and its result

vars == <<backgroundShells, activeBackgroundShellPid, isBackgroundShellListOpen,
          terminalWidth, terminalHeight, focused, mounted, shells, activePid,
          width, height, isFocused, isListOpenProp, listSelectionIndex,
          selectionState, shellsStale, calls, ev, ptyWritten, keysForwarded,
          layout>>

(***************************************************************************)
(* Bounds of the model.                                                    *)
(***************************************************************************)
MaxPid == 3
NarrowWidth == 3
WideWidth == 80
ShortHeight == 2
TallHeight == 24

Pids == 1..MaxPid
Widths == {NarrowWidth, WideWidth}
Heights == {ShortHeight, TallHeight}

(***************************************************************************)
(* Program constants.                                                      *)
(***************************************************************************)
CONTENT_PADDING_X == 1
TAB_DISPLAY_HORIZONTAL_PADDING == 4

(***************************************************************************)
(* Key events.  A sequence is the raw bytes of the key; <<>> is the empty  *)
(* (falsy) sequence.                                                       *)
(***************************************************************************)
Key(name, ctrl, sequence) == [name |-> name, ctrl |-> ctrl, sequence |-> sequence]

NoKey == Key("", FALSE, <<>>)

Keys ==
    { Key("up", FALSE, <<27, 91, 65>>),
      Key("down", FALSE, <<27, 91, 66>>),
      Key("return", FALSE, <<13>>),
      Key("return", FALSE, <<27, 91, 49, 51, 117>>),
      Key("enter", FALSE, <<10>>),
      Key("enter", FALSE, <<>>),
      Key("escape", FALSE, <<27>>),
      Key("o", TRUE, <<15>>),
      Key("k", TRUE, <<11>>),
      Key("b", TRUE, <<2>>),
      Key("backspace", FALSE, <<127>>),
      Key("a", FALSE, <<97>>),
      Key("o", FALSE, <<111>>),
      Key("f13", FALSE, <<>>) }

CR == <<13>>
BS == <<8>>

(***************************************************************************)
(* External calls, as records of one shape.                                *)
(***************************************************************************)
Call(op, pid, data, cols, rows, open) ==
    [op |-> op, pid |-> pid, data |-> data, cols |-> cols, rows |-> rows, open |-> open]

WriteToPtyCall(pid, data) == Call("writeToPty", pid, data, 0, 0, FALSE)
ResizePtyCall(pid, cols, rows) == Call("resizePty", pid, <<>>, cols, rows, FALSE)
DismissCall(pid) == Call("dismissBackgroundShell", pid, <<>>, 0, 0, FALSE)
SetActiveCall(pid) == Call("setActiveBackgroundShellPid", pid, <<>>, 0, 0, FALSE)
SetListOpenCall(open) == Call("setIsBackgroundShellListOpen", 0, <<>>, 0, 0, open)

(***************************************************************************)
(* JavaScript helpers.                                                     *)
(***************************************************************************)
Max(a, b) == IF a >= b THEN a ELSE b

\* Array.prototype.indexOf: 0-based position, -1 when absent
IndexOf(arr, x) ==
    IF \E i \in 1..Len(arr) : arr[i] = x
    THEN (CHOOSE i \in 1..Len(arr) : arr[i] = x /\ \A j \in 1..(i - 1) : arr[j] # x) - 1
    ELSE -1

\* arr[i] with a 0-based index; 0 stands for undefined
ArrayGet(arr, i) == IF i \in 0..(Len(arr) - 1) THEN arr[i + 1] ELSE 0

\* Map.prototype.has
ShellsHas(map, pid) == \E i \in 1..Len(map) : map[i] = pid

(***************************************************************************)
(* The state as one record, so that handlers and effects compose.          *)
(***************************************************************************)
Cur ==
    [ backgroundShells |-> backgroundShells,
      activeBackgroundShellPid |-> activeBackgroundShellPid,
      isBackgroundShellListOpen |-> isBackgroundShellListOpen,
      terminalWidth |-> terminalWidth,
      terminalHeight |-> terminalHeight,
      focused |-> focused,
      mounted |-> mounted,
      shells |-> shells,
      activePid |-> activePid,
      width |-> width,
      height |-> height,
      isFocused |-> isFocused,
      isListOpenProp |-> isListOpenProp,
      listSelectionIndex |-> listSelectionIndex,
      selectionState |-> selectionState,
      shellsStale |-> shellsStale,
      calls |-> <<>> ]

CommitState(e, s) ==
    /\ ev' = e
    /\ backgroundShells' = s.backgroundShells
    /\ activeBackgroundShellPid' = s.activeBackgroundShellPid
    /\ isBackgroundShellListOpen' = s.isBackgroundShellListOpen
    /\ terminalWidth' = s.terminalWidth
    /\ terminalHeight' = s.terminalHeight
    /\ focused' = s.focused
    /\ mounted' = s.mounted
    /\ shells' = s.shells
    /\ activePid' = s.activePid
    /\ width' = s.width
    /\ height' = s.height
    /\ isFocused' = s.isFocused
    /\ isListOpenProp' = s.isListOpenProp
    /\ listSelectionIndex' = s.listSelectionIndex
    /\ selectionState' = s.selectionState
    /\ shellsStale' = s.shellsStale
    /\ calls' = s.calls

\* a step of the panel that records no history and lays out no tabs
Commit(e, s) ==
    /\ CommitState(e, s)
    /\ UNCHANGED <<ptyWritten, keysForwarded, layout>>

(***************************************************************************)
(* Capabilities the component consumes.                                    *)
(***************************************************************************)
ResizePty(s, pid, cols, rows) ==
    [s EXCEPT !.calls = Append(@, ResizePtyCall(pid, cols, rows))]

WriteToPty(s, pid, data) ==
    [s EXCEPT !.calls = Append(@, WriteToPtyCall(pid, data))]

DismissBackgroundShell(s, pid) ==
    [s EXCEPT !.calls = Append(@, DismissCall(pid))]

SetActiveBackgroundShellPid(s, pid) ==
    [s EXCEPT !.activeBackgroundShellPid = pid,
              !.calls = Append(@, SetActiveCall(pid))]

SetIsBackgroundShellListOpen(s, open) ==
    [s EXCEPT !.isBackgroundShellListOpen = open,
              !.calls = Append(@, SetListOpenCall(open))]

\* keyMatchers[Command.TOGGLE_BACKGROUND_SHELL]: Ctrl+B
ToggleBackgroundShellMatcher(key) == key.ctrl /\ key.name = "b"

(***************************************************************************)
(* The component.                                                          *)
(***************************************************************************)
HasActiveShell_Always(s) == TRUE

\* const activeShell = shells.get(activePid); truthy iff the pid is a key
HasActiveShell(s) == ShellsHas(s.shells, s.activePid)

\* useState setter with a value
SetListSelectionIndex(s, index) == [s EXCEPT !.selectionState = index]

ResizeEffect_Unguarded(s) ==
    LET ptyWidth == Max(1, s.width - (TAB_DISPLAY_HORIZONTAL_PADDING \div 2)
                                    - CONTENT_PADDING_X * 2)
        ptyHeight == Max(1, s.height - 3)
    IN  ResizePty(s, s.activePid, ptyWidth, ptyHeight)

ResizeEffect_NoFloor(s) ==
    IF ~ShellsHas(s.shells, s.activePid) THEN s
    ELSE ResizePty(s, s.activePid,
                   s.width - (TAB_DISPLAY_HORIZONTAL_PADDING \div 2) - CONTENT_PADDING_X * 2,
                   s.height - 3)

\* effect 1: resize the active pty
ResizeEffect(s) ==
    IF ~ShellsHas(s.shells, s.activePid) THEN s
    ELSE LET ptyWidth == Max(1, s.width - (TAB_DISPLAY_HORIZONTAL_PADDING \div 2)
                                        - CONTENT_PADDING_X * 2)
             ptyHeight == Max(1, s.height - 3)
         IN  ResizePty(s, s.activePid, ptyWidth, ptyHeight)

\* effect 3: sync list selection with the active pid
SyncSelectionEffect(s) ==
    IF s.isListOpenProp /\ HasActiveShell(s)
    THEN LET index == IndexOf(s.shells, s.activePid)
         IN  IF index # -1 THEN SetListSelectionIndex(s, index) ELSE s
    ELSE s

AutoOpenEffect_NeverOpens(s) ==
    IF Len(s.shells) = 1 THEN SetIsBackgroundShellListOpen(s, FALSE) ELSE s

AutoOpenEffect_NeverCloses(s) ==
    IF Len(s.shells) > 1 THEN SetIsBackgroundShellListOpen(s, TRUE) ELSE s

\* effect 4: auto-open / auto-close, dependency list []
AutoOpenEffect(s) ==
    IF Len(s.shells) = 1 THEN SetIsBackgroundShellListOpen(s, FALSE)
    ELSE IF Len(s.shells) > 1 THEN SetIsBackgroundShellListOpen(s, TRUE)
    ELSE s

AutoOpenEffectRuns_EveryRender(first) == TRUE

\* does effect 4 run after this render: only after the first one
AutoOpenEffectRuns(first) == first

\* key handler, list open
NavigateUp(s) ==
    [s EXCEPT !.selectionState = (@ - 1 + Len(s.shells)) % Len(s.shells)]

NavigateDown_Clamped(s) ==
    [s EXCEPT !.selectionState = IF @ + 1 < Len(s.shells) THEN @ + 1 ELSE @]

NavigateDown(s) ==
    [s EXCEPT !.selectionState = (@ + 1) % Len(s.shells)]

CommitSelection_First(s) ==
    LET selectedPid == ArrayGet(s.shells, 0)
    IN  SetIsBackgroundShellListOpen(
            IF selectedPid # 0 THEN SetActiveBackgroundShellPid(s, selectedPid) ELSE s,
            FALSE)

CommitSelection(s) ==
    LET selectedPid == ArrayGet(s.shells, s.listSelectionIndex)
    IN  SetIsBackgroundShellListOpen(
            IF selectedPid # 0 THEN SetActiveBackgroundShellPid(s, selectedPid) ELSE s,
            FALSE)

CancelList_Commits(s) == CommitSelection(s)

CancelList(s) == SetIsBackgroundShellListOpen(s, FALSE)

SwallowKey_Forwards(s, key) ==
    IF key.sequence # <<>> THEN WriteToPty(s, s.activePid, key.sequence) ELSE s

\* "Don't let other keys bleed through when list is open"
SwallowKey(s, key) == s

HandleListOpen(s, key) ==
    IF key.name = "up" THEN NavigateUp(s)
    ELSE IF key.name = "down" THEN NavigateDown(s)
    ELSE IF key.name = "return" \/ key.name = "enter" THEN CommitSelection(s)
    ELSE IF key.name = "escape" THEN CancelList(s)
    ELSE IF key.ctrl /\ key.name = "o" THEN CommitSelection(s)
    ELSE SwallowKey(s, key)

ForwardToPty_RawReturn(s, key) ==
    IF key.name = "backspace" THEN WriteToPty(s, s.activePid, BS)
    ELSE IF key.sequence # <<>> THEN WriteToPty(s, s.activePid, key.sequence)
    ELSE s

ForwardToPty_RawBackspace(s, key) ==
    IF key.name = "return" THEN WriteToPty(s, s.activePid, CR)
    ELSE IF key.sequence # <<>> THEN WriteToPty(s, s.activePid, key.sequence)
    ELSE s

\* key handler, list closed: forward input to the pty
ForwardToPty(s, key) ==
    IF key.name = "return" THEN WriteToPty(s, s.activePid, CR)
    ELSE IF key.name = "backspace" THEN WriteToPty(s, s.activePid, BS)
    ELSE IF key.sequence # <<>> THEN WriteToPty(s, s.activePid, key.sequence)
    ELSE s

HandleListClosed_ToggleBleeds(s, key) ==
    IF key.ctrl /\ key.name = "k" THEN DismissBackgroundShell(s, s.activePid)
    ELSE IF key.ctrl /\ key.name = "o" THEN SetIsBackgroundShellListOpen(s, TRUE)
    ELSE ForwardToPty(s, key)

HandleListClosed(s, key) ==
    IF ToggleBackgroundShellMatcher(key) THEN s
    ELSE IF key.ctrl /\ key.name = "k" THEN DismissBackgroundShell(s, s.activePid)
    ELSE IF key.ctrl /\ key.name = "o" THEN SetIsBackgroundShellListOpen(s, TRUE)
    ELSE ForwardToPty(s, key)

KeypressIsActive_IgnoresFocus(s) == HasActiveShell(s)

\* useKeypress option isActive
KeypressIsActive(s) == s.isFocused /\ HasActiveShell(s)

\* the callback given to useKeypress
HandleKeypress(s, key) ==
    IF ~KeypressIsActive(s) THEN s
    ELSE IF ~HasActiveShell(s) THEN s
    ELSE IF s.isListOpenProp THEN HandleListOpen(s, key)
    ELSE HandleListClosed(s, key)

(***************************************************************************)
(* renderTabs.  Strings are sequences of characters.                       *)
(***************************************************************************)
RIGHT_TEXT ==
    <<"C", "t", "r", "l", "+", "B", " ", "H", "i", "d", "e", " ", "|", " ",
      "C", "t", "r", "l", "+", "K", " ", "K", "i", "l", "l">>

pidTextEstimate == 25

OverflowText ==
    <<" ", ".", ".", ".", " ", "(", "C", "t", "r", "l", "+", "O", ")", " ">>

ExitedText == <<"(", "E", "x", "i", "t", "e", "d", ")">>

\* number to string, as a template literal does it
RECURSIVE NumberToString(_)
NumberToString(n) ==
    LET digit == <<"0", "1", "2", "3", "4", "5", "6", "7", "8", "9">>[(n % 10) + 1]
    IN  IF n < 10 THEN <<digit>> ELSE NumberToString(n \div 10) \o <<digit>>

\* command.split(' ')[0]
FirstToken(command) ==
    IF \E i \in 1..Len(command) : command[i] = " "
    THEN SubSeq(command, 1,
                (CHOOSE i \in 1..Len(command) :
                    command[i] = " " /\ \A j \in 1..(i - 1) : command[j] # " ") - 1)
    ELSE command

\* ` ${i + 1}: ${shell.command.split(' ')[0]} `, i counted from 0
TabLabel(i, shell) ==
    <<" ">> \o NumberToString(i + 1) \o <<":", " ">> \o FirstToken(shell.command) \o <<" ">>

Tab(key, label, suffix, isActive, isExited) ==
    [key |-> key, label |-> label, suffix |-> suffix,
     isActive |-> isActive, isExited |-> isExited]

OverflowTab == Tab(0, OverflowText, <<>>, FALSE, FALSE)

\* does the label at currentWidth exceed the available width
TabOverflows_OffByOne(currentWidth, labelWidth, availableWidth) ==
    currentWidth + labelWidth >= availableWidth

TabOverflows(currentWidth, labelWidth, availableWidth) ==
    currentWidth + labelWidth > availableWidth

\* the for loop of renderTabs, from index i (counted from 0)
RECURSIVE RenderTabsLoop(_, _, _, _, _, _)
RenderTabsLoop(shellList, tabActivePid, availableWidth, i, currentWidth, tabs) ==
    IF ~(i < Len(shellList)) THEN [tabs |-> tabs, overflow |-> FALSE]
    ELSE LET shell == shellList[i + 1]
             label == TabLabel(i, shell)
             labelWidth == Len(label)
         IN  IF TabOverflows(currentWidth, labelWidth, availableWidth)
             THEN [tabs |-> tabs, overflow |-> TRUE]
             ELSE LET isActive == shell.pid = tabActivePid
                      isExited == shell.status = "exited"
                  IN  RenderTabsLoop(shellList, tabActivePid, availableWidth, i + 1,
                                     currentWidth + labelWidth,
                                     Append(tabs, Tab(shell.pid, label,
                                                      IF isExited THEN ExitedText ELSE <<>>,
                                                      isActive, isExited)))

RenderTabs(shellList, tabActivePid, tabWidth) ==
    LET availableWidth == tabWidth - TAB_DISPLAY_HORIZONTAL_PADDING
                                   - Len(RIGHT_TEXT) - pidTextEstimate
        r == RenderTabsLoop(shellList, tabActivePid, availableWidth, 0, 0, <<>>)
    IN  IF r.overflow THEN Append(r.tabs, OverflowTab) ELSE r.tabs

(***************************************************************************)
(* Rendering: the props and the state are read, then the effects whose     *)
(* dependencies changed run in declaration order.                          *)
(***************************************************************************)
ActiveShellOf(map, pid) == IF ShellsHas(map, pid) THEN pid ELSE 0

Render(s, first) ==
    LET shellsDep == first \/ s.shellsStale
        activeShellDep == first \/ ActiveShellOf(s.shells, s.activePid)
                                    # ActiveShellOf(s.backgroundShells, s.activeBackgroundShellPid)
        resizeDeps == \/ first \/ shellsDep
                      \/ s.activePid # s.activeBackgroundShellPid
                      \/ s.width # s.terminalWidth
                      \/ s.height # s.terminalHeight
        syncDeps == \/ first \/ shellsDep \/ activeShellDep
                    \/ s.isListOpenProp # s.isBackgroundShellListOpen
        r0 == [s EXCEPT !.shells = s.backgroundShells,
                        !.activePid = s.activeBackgroundShellPid,
                        !.width = s.terminalWidth,
                        !.height = s.terminalHeight,
                        !.isFocused = s.focused,
                        !.isListOpenProp = s.isBackgroundShellListOpen,
                        !.listSelectionIndex = s.selectionState,
                        !.shellsStale = FALSE]
        r1 == IF resizeDeps THEN ResizeEffect(r0) ELSE r0
        r2 == IF syncDeps THEN SyncSelectionEffect(r1) ELSE r1
    IN  IF AutoOpenEffectRuns(first) THEN AutoOpenEffect(r2) ELSE r2

NeedsRender(s) ==
    /\ s.mounted
    /\ \/ s.shellsStale
       \/ s.shells # s.backgroundShells
       \/ s.activePid # s.activeBackgroundShellPid
       \/ s.width # s.terminalWidth
       \/ s.height # s.terminalHeight
       \/ s.isFocused # s.focused
       \/ s.isListOpenProp # s.isBackgroundShellListOpen
       \/ s.listSelectionIndex # s.selectionState

RECURSIVE Flush(_)
Flush(s) == IF NeedsRender(s) THEN Flush(Render(s, FALSE)) ELSE s

\* first render of a newly shown panel: useState(0), every effect runs
MountComponent(s) ==
    Render([s EXCEPT !.mounted = TRUE, !.selectionState = 0], TRUE)

\* the panel is hidden: the component and its state are gone
UnmountComponent(s) ==
    [s EXCEPT !.mounted = FALSE, !.shells = <<>>, !.activePid = 0,
              !.width = NarrowWidth, !.height = ShortHeight, !.isFocused = FALSE,
              !.isListOpenProp = FALSE, !.listSelectionIndex = 0,
              !.selectionState = 0, !.shellsStale = FALSE]

(***************************************************************************)
(* The surrounding application.                                            *)
(***************************************************************************)
AddShell(s, pid) ==
    [s EXCEPT !.backgroundShells = Append(@, pid), !.shellsStale = s.mounted]

RemoveShell(s, pid) ==
    [s EXCEPT !.backgroundShells = SelectSeq(@, LAMBDA p : p # pid),
              !.shellsStale = s.mounted]

UpdateShellOutput(s) == [s EXCEPT !.shellsStale = s.mounted]

Event(type, key, pid) == [type |-> type, key |-> key, pid |-> pid]

NoLayout == [shellList |-> <<>>, activePid |-> 0, width |-> 0,
             tabs |-> <<>>, rendered |-> FALSE]

InitPanel ==
    /\ backgroundShells = <<>>
    /\ activeBackgroundShellPid = 0
    /\ isBackgroundShellListOpen = FALSE
    /\ terminalWidth = NarrowWidth
    /\ terminalHeight = ShortHeight
    /\ focused = FALSE
    /\ mounted = FALSE
    /\ shells = <<>>
    /\ activePid = 0
    /\ width = NarrowWidth
    /\ height = ShortHeight
    /\ isFocused = FALSE
    /\ isListOpenProp = FALSE
    /\ listSelectionIndex = 0
    /\ selectionState = 0
    /\ shellsStale = FALSE
    /\ calls = <<>>
    /\ ev = Event("init", NoKey, 0)

Init ==
    /\ InitPanel
    /\ ptyWritten = [pid \in Pids |-> <<>>]
    /\ keysForwarded = [pid \in Pids |-> <<>>]
    /\ layout = NoLayout

KeyPress ==
    \E key \in Keys :
        /\ mounted
        /\ Commit(Event("key", key, 0), Flush(HandleKeypress(Cur, key)))

RegistryAdd ==
    \E pid \in Pids :
        /\ ~ShellsHas(backgroundShells, pid)
        /\ Commit(Event("add", NoKey, pid), Flush(AddShell(Cur, pid)))

RegistryRemove ==
    \E pid \in Pids :
        /\ ShellsHas(backgroundShells, pid)
        /\ Commit(Event("remove", NoKey, pid), Flush(RemoveShell(Cur, pid)))

RegistryOutput ==
    /\ backgroundShells # <<>>
    /\ Commit(Event("output", NoKey, 0), Flush(UpdateShellOutput(Cur)))

AppSetActive ==
    \E pid \in Pids :
        /\ ShellsHas(backgroundShells, pid)
        /\ pid # activeBackgroundShellPid
        /\ Commit(Event("setActive", NoKey, pid),
                  Flush([Cur EXCEPT !.activeBackgroundShellPid = pid]))

AppToggleList ==
    \E open \in BOOLEAN :
        /\ open # isBackgroundShellListOpen
        /\ Commit(Event("toggleList", NoKey, 0),
                  Flush([Cur EXCEPT !.isBackgroundShellListOpen = open]))

ViewportResize ==
    \E w \in Widths, h \in Heights :
        /\ <<w, h>> # <<terminalWidth, terminalHeight>>
        /\ Commit(Event("resize", NoKey, 0),
                  Flush([Cur EXCEPT !.terminalWidth = w, !.terminalHeight = h]))

FocusChange ==
    \E f \in BOOLEAN :
        /\ f # focused
        /\ Commit(Event("focus", NoKey, 0), Flush([Cur EXCEPT !.focused = f]))

Mount ==
    /\ ~mounted
    /\ Commit(Event("mount", NoKey, 0), Flush(MountComponent(Cur)))

Unmount ==
    /\ mounted
    /\ Commit(Event("unmount", NoKey, 0), UnmountComponent(Cur))

Next ==
    \/ KeyPress
    \/ RegistryAdd
    \/ RegistryRemove
    \/ RegistryOutput
    \/ AppSetActive
    \/ AppToggleList
    \/ ViewportResize
    \/ FocusChange
    \/ Mount
    \/ Unmount

Spec == Init /\ [][Next]_vars

(***************************************************************************)
(* The tab layout as a function of its inputs: every list of up to MaxTabs *)
(* sessions over a few commands, every width around the chrome estimate.   *)
(***************************************************************************)
MaxTabs == 3
MinTabWidth == 53
MaxTabWidth == 80

TabCommands ==
    { <<"n", "p", "m", " ", "r", "u", "n", " ", "b", "u", "i", "l", "d">>,
      <<"l", "s">>,
      <<"p", "y", "t", "h", "o", "n", "3", " ", "-", "m">>,
      <<" ", "l", "s">> }

SeqsUpTo(S, n) == UNION {[1..k -> S] : k \in 0..n}

TabShellLists ==
    { [i \in 1..Len(cs) |-> [pid |-> i, command |-> cs[i].command, status |-> cs[i].status]] :
        cs \in SeqsUpTo([command : TabCommands, status : {"running", "exited"}], MaxTabs) }

InitTabs ==
    /\ InitPanel
    /\ ptyWritten = [pid \in Pids |-> <<>>]
    /\ keysForwarded = [pid \in Pids |-> <<>>]
    /\ layout \in [shellList : TabShellLists, activePid : {1, 2},
                   width : MinTabWidth..MaxTabWidth, tabs : {<<>>}, rendered : {FALSE}]

RenderTabsStep ==
    /\ ~layout.rendered
    /\ layout' = [layout EXCEPT
                    !.tabs = RenderTabs(layout.shellList, layout.activePid, layout.width),
                    !.rendered = TRUE]
    /\ UNCHANGED <<backgroundShells, activeBackgroundShellPid, isBackgroundShellListOpen,
                   terminalWidth, terminalHeight, focused, mounted, shells, activePid,
                   width, height, isFocused, isListOpenProp, listSelectionIndex,
                   selectionState, shellsStale, calls, ev, ptyWritten, keysForwarded>>

NextTabs == RenderTabsStep

SpecTabs == InitTabs /\ [][NextTabs]_vars

(***************************************************************************)
(* The panel with the pty traffic recorded: what each session's pty was    *)
(* sent, and which forwardable keys arrived while each session was active. *)
(* The recording stops after MaxForwards forwardable keys.                 *)
(***************************************************************************)
MaxForwards == 2
MaxForwardPid == 2

ForwardKeys ==
    { key \in Keys :
        \/ key.name \in {"backspace", "a", "f13", "down"}
        \/ (key.name = "return" /\ key.sequence # CR)
        \/ (key.name = "enter" /\ key.sequence # <<>>)
        \/ (key.ctrl /\ key.name \in {"o", "k", "b"}) }

\* a key event that the closed panel must forward: not one of the three
\* shortcuts, and carrying bytes
IsForwardable(key) ==
    /\ ~(key.ctrl /\ key.name \in {"b", "k", "o"})
    /\ (key.name \in {"return", "backspace"} \/ key.sequence # <<>>)

\* the bytes of a forwardable key event
ForwardBytes(key) ==
    IF key.name = "return" THEN CR
    ELSE IF key.name = "backspace" THEN BS
    ELSE key.sequence

RECURSIVE ExpectedBytes(_)
ExpectedBytes(keys) ==
    IF keys = <<>> THEN <<>> ELSE ForwardBytes(Head(keys)) \o ExpectedBytes(Tail(keys))

ForwardedCount ==
    Cardinality({pi \in Pids \X (1..MaxForwards) : pi[2] <= Len(keysForwarded[pi[1]])})

\* the pty log after the calls of one step, in call order
RECURSIVE WrittenAfter(_, _)
WrittenAfter(written, cs) ==
    IF cs = <<>> THEN written
    ELSE WrittenAfter(
            IF Head(cs).op = "writeToPty" /\ Head(cs).pid \in Pids
            THEN [written EXCEPT ![Head(cs).pid] = @ \o Head(cs).data]
            ELSE written,
            Tail(cs))

\* a step of the panel with its writes recorded
CommitRecorded(e, s) ==
    /\ CommitState(e, s)
    /\ ptyWritten' = WrittenAfter(ptyWritten, s.calls)
    /\ keysForwarded' =
         IF /\ e.type = "key" /\ IsForwardable(e.key)
            /\ mounted /\ ~isListOpenProp /\ isFocused
            /\ ShellsHas(backgroundShells, activeBackgroundShellPid)
         THEN [keysForwarded EXCEPT ![activeBackgroundShellPid] = Append(@, e.key)]
         ELSE keysForwarded
    /\ UNCHANGED layout

RecordedKeyPress ==
    \E key \in ForwardKeys :
        /\ mounted
        /\ ForwardedCount < MaxForwards
        /\ CommitRecorded(Event("key", key, 0), Flush(HandleKeypress(Cur, key)))

RecordedRegistryAdd ==
    \E pid \in 1..MaxForwardPid :
        /\ ~ShellsHas(backgroundShells, pid)
        /\ CommitRecorded(Event("add", NoKey, pid), Flush(AddShell(Cur, pid)))

RecordedRegistryRemove ==
    \E pid \in Pids :
        /\ ShellsHas(backgroundShells, pid)
        /\ CommitRecorded(Event("remove", NoKey, pid), Flush(RemoveShell(Cur, pid)))

RecordedSetActive ==
    \E pid \in Pids :
        /\ ShellsHas(backgroundShells, pid)
        /\ pid # activeBackgroundShellPid
        /\ CommitRecorded(Event("setActive", NoKey, pid),
                          Flush([Cur EXCEPT !.activeBackgroundShellPid = pid]))

RecordedFocusChange ==
    \E f \in BOOLEAN :
        /\ f # focused
        /\ CommitRecorded(Event("focus", NoKey, 0), Flush([Cur EXCEPT !.focused = f]))

RecordedMount ==
    /\ ~mounted
    /\ CommitRecorded(Event("mount", NoKey, 0), Flush(MountComponent(Cur)))

NextForward ==
    \/ RecordedKeyPress
    \/ RecordedRegistryAdd
    \/ RecordedRegistryRemove
    \/ RecordedSetActive
    \/ RecordedFocusChange
    \/ RecordedMount

SpecForward == Init /\ [][NextForward]_vars

(***************************************************************************)
(* The panel when key events can outrun rendering: a key event is handled  *)
(* by the handler of the last render, and the re-render it asks for (with  *)
(* the effects and the new handler) happens in a later step.  Every other  *)
(* event is followed by its re-renders as under Spec.                      *)
(***************************************************************************)
AsyncKeyPress ==
    \E key \in Keys :
        /\ mounted
        /\ Commit(Event("key", key, 0), HandleKeypress(Cur, key))

AsyncRender ==
    /\ NeedsRender(Cur)
    /\ Commit(Event("render", NoKey, 0), Render(Cur, FALSE))

NextAsync ==
    \/ AsyncKeyPress
    \/ AsyncRender
    \/ RegistryAdd
    \/ RegistryRemove
    \/ AppSetActive
    \/ FocusChange
    \/ Mount

SpecAsync == Init /\ [][NextAsync]_vars

(***************************************************************************)
(* Properties.                                                             *)
(***************************************************************************)
CallsWithOp(cs, op) == SelectSeq(cs, LAMBDA c : c.op = op)

KeyStep == ev'.type = "key"

\* the handler is subscribed and its guard passes: focus and a valid active session
Routed == isFocused /\ ShellsHas(shells, activePid)

SelectionUnchanged ==
    /\ activeBackgroundShellPid' = activeBackgroundShellPid
    /\ isBackgroundShellListOpen' = isBackgroundShellListOpen
    /\ selectionState' = selectionState

IsConfirmKey(key) == key.name \in {"return", "enter"} \/ (key.ctrl /\ key.name = "o")

IsOtherKey(key) == key.name \notin {"up", "down", "return", "enter", "escape"}
                   /\ ~(key.ctrl /\ key.name = "o")

\* C1: while the picker is open, a key other than up, down, return/enter,
\* escape and Ctrl+O issues no call at all (no pty write, no dismiss) and
\* changes neither the active pid, the picker flag nor the selection index.
C1_OtherKeysSwallowedWhenOpen ==
    [][(KeyStep /\ isListOpenProp /\ IsOtherKey(ev'.key))
         => (calls' = <<>> /\ SelectionUnchanged)]_vars

C1_Witness ==
    /\ ev.type = "key" /\ IsOtherKey(ev.key) /\ ev.key.sequence # <<>>
    /\ mounted /\ isListOpenProp /\ isFocused /\ ShellsHas(shells, activePid)
    /\ calls = <<>>

\* C2: with an empty registry no key event issues any call (write, resize,
\* dismiss, set-active, set-picker-open) or changes the selection index,
\* whatever the key, the picker flag and the focus flag.
C2_EmptyRegistryKeysAreNoOps ==
    [][(KeyStep /\ Len(backgroundShells) = 0)
         => (calls' = <<>> /\ SelectionUnchanged)]_vars

C2_Witness ==
    /\ ev.type = "key" /\ ev.key.sequence # <<>>
    /\ mounted /\ backgroundShells = <<>> /\ isFocused /\ activePid # 0
    /\ calls = <<>>

\* C3: while the picker is open (and the key is routed), a confirm key
\* (return, enter, Ctrl+O) makes the session at the current selection index
\* in registry order the active pid and closes the picker; the index is in
\* range in every such state.
C3_ConfirmCommitsSelection ==
    [][(KeyStep /\ isListOpenProp /\ Routed /\ IsConfirmKey(ev'.key))
         => /\ selectionState \in 0..(Len(backgroundShells) - 1)
            /\ activeBackgroundShellPid' = backgroundShells[selectionState + 1]
            /\ CallsWithOp(calls', "setActiveBackgroundShellPid")
                 = <<SetActiveCall(backgroundShells[selectionState + 1])>>
            /\ CallsWithOp(calls', "setIsBackgroundShellListOpen")
                 = <<SetListOpenCall(FALSE)>>
            /\ ~isBackgroundShellListOpen']_vars

\* a commit that moved the active pid to a later row (the resize effect ran for it)
C3_Witness ==
    /\ ev.type = "key" /\ IsConfirmKey(ev.key)
    /\ ~isBackgroundShellListOpen
    /\ selectionState > 0
    /\ Len(calls) = 3
    /\ calls[1] = SetActiveCall(backgroundShells[selectionState + 1])
    /\ calls[2] = SetListOpenCall(FALSE)
    /\ calls[3].op = "resizePty" /\ calls[3].pid = activeBackgroundShellPid

\* C4: while the picker is open (and the key is routed), escape closes the
\* picker and leaves the active pid unchanged: the only call is
\* set-picker-open(false).
C4_EscapeCancels ==
    [][(KeyStep /\ isListOpenProp /\ Routed /\ ev'.key.name = "escape")
         => /\ ~isBackgroundShellListOpen'
            /\ activeBackgroundShellPid' = activeBackgroundShellPid
            /\ calls' = <<SetListOpenCall(FALSE)>>]_vars

\* escape after the user navigated away from the active row
C4_Witness ==
    /\ ev.type = "key" /\ ev.key.name = "escape"
    /\ mounted /\ ~isBackgroundShellListOpen
    /\ calls = <<SetListOpenCall(FALSE)>>
    /\ ShellsHas(backgroundShells, activeBackgroundShellPid)
    /\ selectionState # IndexOf(backgroundShells, activeBackgroundShellPid)

\* C5: while the picker is open (and the key is routed) with n sessions, down
\* maps index i to (i + 1) mod n and up maps i to (i - 1 + n) mod n; neither
\* changes the active pid or the picker flag.
C5_NavigationWraps ==
    [][(KeyStep /\ isListOpenProp /\ Routed /\ ev'.key.name \in {"up", "down"})
         => LET n == Len(backgroundShells)
            IN  /\ n >= 1
                /\ ev'.key.name = "down" => selectionState' = (selectionState + 1) % n
                /\ ev'.key.name = "up" => selectionState' = (selectionState - 1 + n) % n
                /\ selectionState' \in 0..(n - 1)
                /\ activeBackgroundShellPid' = activeBackgroundShellPid
                /\ isBackgroundShellListOpen' = isBackgroundShellListOpen]_vars

\* down from the last row of a list of three or more
C5_Witness ==
    /\ ev.type = "key" /\ ev.key.name = "down"
    /\ mounted /\ isListOpenProp /\ isFocused /\ ShellsHas(shells, activePid)
    /\ Len(backgroundShells) >= 3
    /\ selectionState = 0
    /\ IndexOf(backgroundShells, activeBackgroundShellPid) = 1

\* C6: whenever the picker is open and the registry is non-empty, the
\* selection index is within 0..sessionCount-1.
C6_IndexInRange ==
    (mounted /\ isBackgroundShellListOpen /\ Len(backgroundShells) > 0)
        => selectionState \in 0..(Len(backgroundShells) - 1)

C9_ReturnForwardsCR ==
    [][(KeyStep /\ ~isListOpenProp /\ Routed /\ ev'.key.name = "return")
         => (calls' = <<WriteToPtyCall(activeBackgroundShellPid, CR)>>
             /\ SelectionUnchanged)]_vars

\* a return key whose raw sequence is not the carriage-return byte
C9_Witness ==
    /\ ev.type = "key" /\ ev.key.name = "return" /\ ev.key.sequence # CR
    /\ mounted /\ ~isListOpenProp /\ isFocused /\ ShellsHas(shells, activePid)
    /\ calls = <<WriteToPtyCall(activePid, CR)>>

\* C10: with the picker closed (and the key routed), a key named enter
\* forwards exactly the carriage-return byte to the active session's pty,
\* whatever its raw sequence.
C10_EnterForwardsCR ==
    [][(KeyStep /\ ~isListOpenProp /\ Routed /\ ev'.key.name = "enter")
         => calls' = <<WriteToPtyCall(activeBackgroundShellPid, CR)>>]_vars

\* C11: with the picker closed (and the key routed) a key event issues at most
\* one call, chosen by the first matching rule: the toggle-visibility shortcut
\* issues none, Ctrl+K issues exactly dismiss(active pid) and changes no state,
\* Ctrl+O issues exactly set-picker-open(true) and leaves the active pid alone,
\* return writes CR, backspace writes BS, any other key writes its raw sequence
\* if it has one and nothing otherwise.
C11_ClosedPrecedenceChain ==
    [][(KeyStep /\ ~isListOpenProp /\ Routed)
         => LET key == ev'.key
                pid == activeBackgroundShellPid
            IN  /\ Len(calls') <= 1
                /\ activeBackgroundShellPid' = pid
                /\ IF ToggleBackgroundShellMatcher(key)
                   THEN calls' = <<>> /\ SelectionUnchanged
                   ELSE IF key.ctrl /\ key.name = "k"
                   THEN calls' = <<DismissCall(pid)>> /\ SelectionUnchanged
                   ELSE IF key.ctrl /\ key.name = "o"
                   THEN calls' = <<SetListOpenCall(TRUE)>> /\ isBackgroundShellListOpen'
                   ELSE IF key.name = "return"
                   THEN calls' = <<WriteToPtyCall(pid, CR)>> /\ SelectionUnchanged
                   ELSE IF key.name = "backspace"
                   THEN calls' = <<WriteToPtyCall(pid, BS)>> /\ SelectionUnchanged
                   ELSE IF key.sequence # <<>>
                   THEN calls' = <<WriteToPtyCall(pid, key.sequence)>> /\ SelectionUnchanged
                   ELSE calls' = <<>> /\ SelectionUnchanged]_vars

\* Ctrl+K on a closed, focused panel: one dismiss call, the raw byte is not written
C11_Witness ==
    /\ ev.type = "key" /\ ev.key.ctrl /\ ev.key.name = "k" /\ ev.key.sequence # <<>>
    /\ mounted /\ ~isListOpenProp /\ isFocused /\ ShellsHas(shells, activePid)
    /\ calls = <<DismissCall(activePid)>>

\* C13 as claimed: on every closed-to-open transition of the picker the
\* selection index becomes the position of the active pid in registry order,
\* and 0 when the active pid is not in the registry.
C13_SyncOnOpenWithFallback ==
    [][(mounted /\ mounted' /\ ~isListOpenProp /\ isListOpenProp')
         => selectionState' =
              IF IndexOf(backgroundShells', activeBackgroundShellPid') # -1
              THEN IndexOf(backgroundShells', activeBackgroundShellPid')
              ELSE 0]_vars

\* C14: while the active pid is not a member of a non-empty registry, a key
\* event (either picker state) and a geometry change issue no call at all and
\* a key changes no selection state.
C14_MissingActiveIsNoOp ==
    [][(ev'.type \in {"key", "resize"} /\ mounted
        /\ backgroundShells # <<>>
        /\ ~ShellsHas(backgroundShells, activeBackgroundShellPid))
         => (calls' = <<>> /\ SelectionUnchanged)]_vars

\* a geometry change while the active pid names a session that is gone
C14_Witness ==
    /\ ev.type = "resize" /\ mounted
    /\ backgroundShells # <<>>
    /\ activeBackgroundShellPid # 0
    /\ ~ShellsHas(backgroundShells, activeBackgroundShellPid)
    /\ width = terminalWidth /\ height = terminalHeight
    /\ calls = <<>>

\* C15: every resize call is for the active pid, which is in the registry,
\* with columns = max(1, width - 4) >= 1 and rows = max(1, height - 3) >= 1;
\* and a change of the active pid, the width, the height or the registry
\* while the panel is shown issues exactly one such call when the active pid
\* is in the registry.
C15_GeometrySync ==
    [][LET resizes == CallsWithOp(calls', "resizePty")
       IN  /\ \A i \in 1..Len(resizes) :
                /\ resizes[i].pid = activeBackgroundShellPid'
                /\ ShellsHas(backgroundShells', activeBackgroundShellPid')
                /\ resizes[i].cols = Max(1, terminalWidth' - 4)
                /\ resizes[i].rows = Max(1, terminalHeight' - 3)
                /\ resizes[i].cols >= 1 /\ resizes[i].rows >= 1
           /\ (/\ mounted /\ mounted'
               /\ \/ activeBackgroundShellPid' # activeBackgroundShellPid
                  \/ terminalWidth' # terminalWidth
                  \/ terminalHeight' # terminalHeight
                  \/ ev'.type \in {"add", "remove", "output"}
               /\ ShellsHas(backgroundShells', activeBackgroundShellPid'))
                => Len(resizes) = 1]_vars

\* a viewport too small for the chrome: both dimensions are floored at 1
C15_Witness ==
    /\ ev.type = "resize" /\ mounted
    /\ width < 4 /\ height < 3
    /\ calls = <<ResizePtyCall(activePid, 1, 1)>>
    /\ ShellsHas(shells, activePid)

\* C16: when the panel does not hold focus a key event issues no call and
\* changes neither the active pid, the picker flag nor the selection index,
\* whatever the picker state and the registry.
C16_UnfocusedKeysNotRouted ==
    [][(KeyStep /\ ~isFocused) => (calls' = <<>> /\ SelectionUnchanged)]_vars

\* a key with a raw sequence on an unfocused panel that has a valid active session
C16_Witness ==
    /\ ev.type = "key" /\ ev.key.sequence # <<>> /\ ev.key.name = "a"
    /\ mounted /\ ~isFocused /\ ~isListOpenProp /\ ShellsHas(shells, activePid)
    /\ calls = <<>>

\* C18: with more than one session, escape or a confirm key on the open picker
\* leaves it closed once the re-renders it causes are done; and while the
\* panel stays shown with the picker closed and more than one session, the
\* picker is opened only by Ctrl+O or by an external toggle: output updates,
\* viewport changes, focus changes, active-pid changes, other keys and
\* registry changes never open it.
C18_StaysClosed ==
    [][/\ (KeyStep /\ isListOpenProp /\ Routed /\ Len(backgroundShells) > 1
           /\ (ev'.key.name = "escape" \/ IsConfirmKey(ev'.key)))
            => (~isBackgroundShellListOpen' /\ ~isListOpenProp')
       /\ (mounted /\ mounted' /\ ~isBackgroundShellListOpen
           /\ Len(backgroundShells) > 1 /\ isBackgroundShellListOpen')
            => \/ ev'.type = "toggleList"
               \/ (ev'.type = "key" /\ ev'.key.ctrl /\ ev'.key.name = "o")]_vars

\* an output update after the user cancelled the picker away from the active row
C18_Witness ==
    /\ ev.type = "output" /\ mounted
    /\ ~isBackgroundShellListOpen /\ ~isListOpenProp
    /\ Len(backgroundShells) > 1
    /\ ShellsHas(backgroundShells, activeBackgroundShellPid)
    /\ selectionState # IndexOf(backgroundShells, activeBackgroundShellPid)

\* C19 as claimed: while the picker stays open, an output update (a new
\* registry snapshot with the same membership and the same active pid) leaves
\* the selection index unchanged.
C19_OutputKeepsSelection ==
    [][(ev'.type = "output" /\ mounted /\ isListOpenProp /\ isListOpenProp')
         => selectionState' = selectionState]_vars

\* cumulative length of the first k labels, each " <position>: <token> "
RECURSIVE LabelPrefixWidth(_, _)
LabelPrefixWidth(shellList, k) ==
    IF k = 0 THEN 0
    ELSE LabelPrefixWidth(shellList, k - 1)
         + 1 + Len(NumberToString(k)) + 2 + Len(FirstToken(shellList[k].command)) + 1

\* how many labels fit in the budget width - 4 - 25 - 25
FitCount(shellList, tabWidth) ==
    Cardinality({k \in 1..Len(shellList) :
                    LabelPrefixWidth(shellList, k) <= tabWidth - 4 - 25 - 25})

\* C17: the layout emits the labels of the first N sessions in registry
\* order, N being the number of labels that fit cumulatively in the budget
\* width - 4 - 25 - 25, followed by the overflow entry if and only if there
\* are more than N sessions; one session "npm run build" at width 80 gives
\* the single tab " 1: npm ".
C17_TabLayout ==
    layout.rendered =>
        LET shellList == layout.shellList
            n == FitCount(shellList, layout.width)
            tabs == layout.tabs
        IN  /\ Len(tabs) = n + (IF Len(shellList) > n THEN 1 ELSE 0)
            /\ \A i \in 1..n :
                 /\ tabs[i].key = shellList[i].pid
                 /\ tabs[i].label = TabLabel(i - 1, shellList[i])
                 /\ Len(tabs[i].label) = LabelPrefixWidth(shellList, i)
                                           - LabelPrefixWidth(shellList, i - 1)
            /\ Len(shellList) > n => tabs[n + 1] = OverflowTab
            /\ (Len(shellList) = 1 /\ layout.width = 80
                /\ FirstToken(shellList[1].command) = <<"n", "p", "m">>)
                 => (Len(tabs) = 1
                     /\ tabs[1].label = <<" ", "1", ":", " ", "n", "p", "m", " ">>)

\* three sessions of which exactly two fit, the second one filling the budget
C17_Witness ==
    /\ layout.rendered
    /\ Len(layout.shellList) = 3
    /\ Len(layout.tabs) = 3
    /\ layout.tabs[3] = OverflowTab
    /\ LabelPrefixWidth(layout.shellList, 2) = layout.width - 4 - 25 - 25

\* C12: a step that writes to a pty changes neither the picker flag, the
\* selection index nor the active pid, and the bytes written to each
\* session's pty are exactly the concatenation, in arrival order, of the bytes
\* of the forwardable keys received while that session was active (CR for
\* return, BS for backspace, the raw sequence otherwise).
C12_ForwardOrder ==
    [][/\ \A pid \in Pids : ptyWritten'[pid] = ExpectedBytes(keysForwarded'[pid])
       /\ CallsWithOp(calls', "writeToPty") # <<>> => SelectionUnchanged]_vars

\* a session that was sent return and then backspace, in that order
C12_Witness ==
    \E pid \in Pids :
        /\ Len(keysForwarded[pid]) = 2
        /\ keysForwarded[pid][1].name = "return"
        /\ keysForwarded[pid][2].name = "backspace"
        /\ ptyWritten[pid] = CR \o BS

\* C20: a confirm key handled while the picker is open makes the session at
\* the index reached by all earlier navigation keys the active pid, also when
\* it is delivered before the component has re-rendered with that index.
C20_CommitUsesLatestIndex ==
    [][(KeyStep /\ IsConfirmKey(ev'.key) /\ isListOpenProp /\ Routed
        /\ isBackgroundShellListOpen
        /\ shells = backgroundShells /\ activePid = activeBackgroundShellPid
        /\ selectionState \in 0..(Len(backgroundShells) - 1))
         => activeBackgroundShellPid' = backgroundShells[selectionState + 1]]_vars

====
